---- MODULE Spec2Model ----
(***************************************************************************)
(* The WebSocket connection multiplexer of the dashboard front end         *)
(* (frontend/src/services/websocket.js), with the auth store's token, the  *)
(* browser's WebSocket objects and the callers' listener callbacks as its  *)
(* environment.                                                            *)
(***************************************************************************)
EXTENDS Integers, Sequences, FiniteSets, TLC

(***************************************************************************)
(* Bounds of the model.                                                    *)
(***************************************************************************)
\* Connection life cycle runs: WebSocket objects created, addListener calls.
MaxSockets == 3
MaxListeners == 1
\* Dispatch runs: WebSocket objects created, addListener calls.
DispatchSockets == 1
DispatchListeners == 3
\* Key isolation runs: WebSocket objects created, addListener calls.
KeySockets == 2
KeyListeners == 2
FaultSockets == 2
FaultListeners == 2
ReentrantSockets == 1
ReentrantListeners == 3
ReentrantLength == 4
CollideSockets == 2
CollideListeners == 1
IndependentSockets == 2
IndependentListeners == 1
StoreSockets == 2
StoreMounts == 3
MaxRedirects == 3
MaxRequests == 3

(***************************************************************************)
(* JavaScript values.                                                      *)
(***************************************************************************)
\* A property that is absent from an object (undefined).
Undefined == "undefined"

\* The values the callers pass as taskId: null, a number, a string.
JsNull == [tag |-> "null", n |-> 0, s |-> ""]
JsNum(n) == [tag |-> "num", n |-> n, s |-> ""]
JsStr(str) == [tag |-> "str", n |-> 0, s |-> str]

\* ToBoolean, as applied by `taskId ? ... : ...` and `if (taskId)`.
Truthy(v) ==
    CASE v.tag = "null" -> FALSE
      [] v.tag = "num" -> v.n # 0
      [] v.tag = "str" -> v.s # ""

\* The text a template literal `${v}` gives.
JsToString(v) ==
    CASE v.tag = "null" -> "null"
      [] v.tag = "num" -> ToString(v.n)
      [] v.tag = "str" -> v.s

(***************************************************************************)
(* Channels, keys, event types, frames, callbacks.                         *)
(***************************************************************************)
\* The key derived from the topic alone.
connectionKeyTopicOnly(topic, taskId) == topic

\* const connectionKey = taskId ? `${topic}_${taskId}` : topic
connectionKey(topic, taskId) ==
    IF Truthy(taskId) THEN topic \o "_" \o JsToString(taskId) ELSE topic

\* The address the socket is opened on (base address and token left out).
wsUrl(topic, taskId) ==
    "/ws/" \o topic \o (IF Truthy(taskId) THEN "/" \o JsToString(taskId) ELSE "")

\* The (topic, taskId) pairs the callers use.
Dashboard == <<"dashboard", JsNull>>
Chans == {Dashboard}

\* Two channels of one topic: without a task id, and with task id 1.
TopicA == <<"topicA", JsNull>>
TopicATask == <<"topicA", JsNum(1)>>
KeyChans == {TopicA, TopicATask}

\* Channels whose topic contains '_' or whose task id is 0 or the empty string.
TopicA1 == <<"a_1", JsNull>>
TopicATask1 == <<"a", JsNum(1)>>
TopicATask0 == <<"a", JsNum(0)>>
TopicATaskEmpty == <<"a", JsStr("")>>
CollideChans == {TopicA1, TopicATask1, TopicATask0, TopicATaskEmpty}

AllChans == Chans \cup KeyChans \cup CollideChans
Keys == {connectionKey(c[1], c[2]) : c \in AllChans}

\* Event types: the two synthetic ones and the types of inbound messages.
MessageTypes == {"heartbeat", "dashboard_update"}
EventTypes == {"connection", "error"} \cup MessageTypes

\* Inbound frames (event.data), as text.
HeartbeatFrame == "{\"type\":\"heartbeat\"}"
UpdateFrame == "{\"type\":\"dashboard_update\"}"
GarbageFrame == "<html>"
TruncatedFrame == "{\"type\":\"heartbeat\""
Frames == {HeartbeatFrame, UpdateFrame, GarbageFrame, TruncatedFrame}

\* JSON.parse(event.data): ok is FALSE where it throws a SyntaxError.
JSONparse(text) ==
    CASE text = HeartbeatFrame -> [ok |-> TRUE, type |-> "heartbeat", status |-> Undefined]
      [] text = UpdateFrame -> [ok |-> TRUE, type |-> "dashboard_update", status |-> Undefined]
      [] OTHER -> [ok |-> FALSE, type |-> Undefined, status |-> Undefined]

\* The payloads of the synthetic events.
ConnectionEvent(status) == [ok |-> TRUE, type |-> Undefined, status |-> status]
ErrorEvent == [ok |-> TRUE, type |-> Undefined, status |-> Undefined]

\* The callbacks callers register: closures, compared by reference.
\*   log1, log2  return normally
\*   thrower     throws
\*   reconnect   calls connect for its channel when notified {status: disconnected}
\*   subscriber    calls addListener(chan, data.type, log2) on a message
\*   unsubscriber  calls removeListener(chan, data.type, log1) on a message
\*   once          calls removeListener(chan, data.type, itself) on a message
\*   storeHandler  the closure the dashboard store creates in each
\*                 connectToWebsocket call; it writes the update to the store
NoChan == <<"", JsNull>>
Cb(kind, chan) == [kind |-> kind, chan |-> chan]
Log1 == Cb("log1", NoChan)
Log2 == Cb("log2", NoChan)
Thrower == Cb("thrower", NoChan)
Reconnect(chan) == Cb("reconnect", chan)
Subscriber(chan) == Cb("subscriber", chan)
Unsubscriber(chan) == Cb("unsubscriber", chan)
Once(chan) == Cb("once", chan)
StoreHandler(ref) == [kind |-> "storeHandler", chan |-> Dashboard, ref |-> ref]

(***************************************************************************)
(* State.                                                                  *)
(***************************************************************************)
VARIABLES
    token,              \* authStore.token is set
    sockets,            \* the WebSocket objects created so far
    connections,        \* this.connections: key -> socket (0: no property)
    connectionStatus,   \* this.connectionStatus: key -> status or Undefined
    listeners,          \* this.listeners: <<key, eventType>> -> array, if any
    last,               \* the operation that ran last, and what it returned
    invoked,            \* the callbacks the last operation invoked, in order
    sent,               \* the sockets the last operation sent a frame on
    adds,               \* addListener calls so far
    regs,               \* history: the registrations not removed, with the
                        \* number of the addListener call that made each
    live,               \* history: keys for which a connect call returned true
                        \* with no close event and no disconnect since
    websocketConnected, \* the dashboard store's websocketConnected flag
    nav,                \* the router: the navigation under way or settled, and
                        \* the user entry of localStorage
    list                \* the symbols list component

vars == <<token, sockets, connections, connectionStatus, listeners,
          last, invoked, sent, adds, regs, live, websocketConnected, nav, list>>

\* The variables of the websocket service and its callers.
serviceVars == <<sockets, connections, connectionStatus, listeners,
                 last, invoked, sent, adds, regs, live, websocketConnected>>

NoArray == [def |-> FALSE, arr |-> <<>>]

\* The service and its environment at the start of an operation.
State ==
    [token |-> token, sockets |-> sockets, connections |-> connections,
     connectionStatus |-> connectionStatus, listeners |-> listeners,
     websocketConnected |-> websocketConnected,
     invoked |-> <<>>, sent |-> <<>>, exc |-> FALSE, ret |-> Undefined]

(***************************************************************************)
(* The browser's WebSocket object.                                         *)
(***************************************************************************)
\* new WebSocket(wsUrl)
NewWebSocket(key, url) == [key |-> key, url |-> url, phase |-> "CONNECTING"]

\* ws.close(): starts the closing handshake; the close event comes later.
WsClose(s, i) ==
    IF s.sockets[i].phase \in {"CONNECTING", "OPEN"}
    THEN [s EXCEPT !.sockets[i].phase = "CLOSING"]
    ELSE s

\* connections[key].send('heartbeat'): a TypeError without a record, an
\* InvalidStateError on a socket still connecting, dropped once closing.
WsSend(s, i) ==
    IF i = 0 THEN [s EXCEPT !.exc = TRUE]
    ELSE IF s.sockets[i].phase = "CONNECTING" THEN [s EXCEPT !.exc = TRUE]
    ELSE IF s.sockets[i].phase = "OPEN" THEN [s EXCEPT !.sent = Append(@, i)]
    ELSE s

(***************************************************************************)
(* WebSocketService.                                                       *)
(***************************************************************************)
\* connect without the token check.
connectWithoutToken(s, topic, taskId) ==
    LET key == connectionKey(topic, taskId) IN
    IF s.connections[key] # 0 THEN [s EXCEPT !.ret = "true"]
    ELSE [s EXCEPT !.sockets = Append(@, NewWebSocket(key, wsUrl(topic, taskId))),
                   !.connections[key] = Len(s.sockets) + 1,
                   !.connectionStatus[key] = "connecting",
                   !.ret = "true"]

\* connect without the check for a connection already recorded.
connectAlwaysNew(s, topic, taskId) ==
    LET key == connectionKey(topic, taskId) IN
    IF ~s.token THEN [s EXCEPT !.ret = "false"]
    ELSE [s EXCEPT !.sockets = Append(@, NewWebSocket(key, wsUrl(topic, taskId))),
                   !.connections[key] = Len(s.sockets) + 1,
                   !.connectionStatus[key] = "connecting",
                   !.ret = "true"]

connect(s, topic, taskId) ==
    LET key == connectionKey(topic, taskId) IN
    IF ~s.token THEN [s EXCEPT !.ret = "false"]
    ELSE IF s.connections[key] # 0 THEN [s EXCEPT !.ret = "true"]
    ELSE [s EXCEPT !.sockets = Append(@, NewWebSocket(key, wsUrl(topic, taskId))),
                   !.connections[key] = Len(s.sockets) + 1,
                   !.connectionStatus[key] = "connecting",
                   !.ret = "true"]

\* disconnect that closes the socket and leaves the bookkeeping to the
\* close event.
disconnectLazy(s, topic, taskId) ==
    LET key == connectionKey(topic, taskId) IN
    IF s.connections[key] # 0
    THEN [WsClose(s, s.connections[key]) EXCEPT !.ret = "true"]
    ELSE [s EXCEPT !.ret = "false"]

\* disconnect without the check for a record: close() of undefined throws.
disconnectUnchecked(s, topic, taskId) ==
    LET key == connectionKey(topic, taskId) IN
    IF s.connections[key] # 0
    THEN [WsClose(s, s.connections[key]) EXCEPT
              !.connections[key] = 0,
              !.connectionStatus[key] = "disconnected",
              !.ret = "true"]
    ELSE [s EXCEPT !.exc = TRUE]

\* disconnect marking every key disconnected.
disconnectEveryKey(s, topic, taskId) ==
    LET key == connectionKey(topic, taskId) IN
    IF s.connections[key] # 0
    THEN [WsClose(s, s.connections[key]) EXCEPT
              !.connections[key] = 0,
              !.connectionStatus = [k \in DOMAIN @ |-> "disconnected"],
              !.ret = "true"]
    ELSE [s EXCEPT !.ret = "false"]

disconnect(s, topic, taskId) ==
    LET key == connectionKey(topic, taskId) IN
    IF s.connections[key] # 0
    THEN [WsClose(s, s.connections[key]) EXCEPT
              !.connections[key] = 0,
              !.connectionStatus[key] = "disconnected",
              !.ret = "true"]
    ELSE [s EXCEPT !.ret = "false"]

\* addListener with unshift in place of push.
addListenerFirst(s, topic, taskId, eventType, callback) ==
    LET key == connectionKey(topic, taskId) IN
    [s EXCEPT !.listeners[<<key, eventType>>] =
                  [def |-> TRUE, arr |-> <<callback>> \o @.arr],
              !.ret = Undefined]

\* addListener skipping a callback the sequence already holds.
addListenerDedup(s, topic, taskId, eventType, callback) ==
    LET key == connectionKey(topic, taskId)
        arr == s.listeners[<<key, eventType>>].arr
    IN  IF \E j \in 1..Len(arr) : arr[j] = callback
        THEN [s EXCEPT !.ret = Undefined]
        ELSE [s EXCEPT !.listeners[<<key, eventType>>] =
                           [def |-> TRUE, arr |-> Append(@.arr, callback)],
                       !.ret = Undefined]

addListener(s, topic, taskId, eventType, callback) ==
    LET key == connectionKey(topic, taskId) IN
    [s EXCEPT !.listeners[<<key, eventType>>] =
                  [def |-> TRUE, arr |-> Append(@.arr, callback)],
              !.ret = Undefined]

\* array.filter(cb => cb !== callback)
Filter(arr, callback) == SelectSeq(arr, LAMBDA cb : cb # callback)

\* removeListener dropping the first occurrence of the callback only.
removeListenerFirstOnly(s, topic, taskId, eventType, callback) ==
    LET key == connectionKey(topic, taskId)
        arr == s.listeners[<<key, eventType>>].arr
        hits == {j \in 1..Len(arr) : arr[j] = callback}
        first == CHOOSE j \in hits : \A h \in hits : j <= h
    IN  IF ~s.listeners[<<key, eventType>>].def THEN [s EXCEPT !.ret = "false"]
        ELSE IF hits = {} THEN [s EXCEPT !.ret = "true"]
        ELSE [s EXCEPT !.listeners[<<key, eventType>>].arr =
                           SubSeq(arr, 1, first - 1) \o SubSeq(arr, first + 1, Len(arr)),
                       !.ret = "true"]

removeListener(s, topic, taskId, eventType, callback) ==
    LET key == connectionKey(topic, taskId) IN
    IF ~s.listeners[<<key, eventType>>].def THEN [s EXCEPT !.ret = "false"]
    ELSE [s EXCEPT !.listeners[<<key, eventType>>].arr = Filter(@, callback),
                   !.ret = "true"]

\* getStatus without the default for a key that has no status.
getStatusRaw(s, topic, taskId) ==
    LET key == connectionKey(topic, taskId) IN
    s.connectionStatus[key]

getStatus(s, topic, taskId) ==
    LET key == connectionKey(topic, taskId) IN
    IF s.connectionStatus[key] = Undefined THEN "disconnected"
    ELSE s.connectionStatus[key]

\* callback(data): the body of a registered callback; exc is set where it throws.
callback(s, cb, data) ==
    CASE cb.kind = "thrower" -> [s EXCEPT !.exc = TRUE]
      [] cb.kind = "reconnect" ->
            IF data.status = "disconnected"
            THEN connect(s, cb.chan[1], cb.chan[2])
            ELSE s
      [] cb.kind = "subscriber" /\ data.type # Undefined ->
            addListener(s, cb.chan[1], cb.chan[2], data.type, Log2)
      [] cb.kind = "unsubscriber" /\ data.type # Undefined ->
            removeListener(s, cb.chan[1], cb.chan[2], data.type, Log1)
      [] cb.kind = "once" /\ data.type # Undefined ->
            removeListener(s, cb.chan[1], cb.chan[2], data.type, cb)
      [] OTHER -> s

\* The callback called without the try/catch around it.
callbackUncaught(s, key, eventType, cb, data) ==
    callback([s EXCEPT !.invoked = Append(@, [key |-> key, type |-> eventType, cb |-> cb])],
             cb, data)

\* try { callback(data) } catch (error) { console.error(...) }
tryCallback(s, key, eventType, cb, data) ==
    LET s1 == [s EXCEPT !.invoked = Append(@, [key |-> key, type |-> eventType, cb |-> cb])]
    IN  [callback(s1, cb, data) EXCEPT !.exc = FALSE]

\* array.forEach(...) over arr, the array object listeners[key][eventType]
\* held when the dispatch began: forEach reads the length once, push only
\* appends behind it and filter builds another array, so the elements
\* visited are those of arr.  An exception leaving the callback ends the loop.
\* A loop that reads listeners[key][eventType] again at every step.
RECURSIVE forEachLive(_, _, _, _, _, _)
forEachLive(s, key, eventType, data, arr, i) ==
    LET now == s.listeners[<<key, eventType>>].arr IN
    IF i > Len(now) \/ s.exc THEN s
    ELSE forEachLive(tryCallback(s, key, eventType, now[i], data),
                     key, eventType, data, now, i + 1)

RECURSIVE forEach(_, _, _, _, _, _)
forEach(s, key, eventType, data, arr, i) ==
    IF i > Len(arr) \/ s.exc THEN s
    ELSE forEach(tryCallback(s, key, eventType, arr[i], data),
                 key, eventType, data, arr, i + 1)

_notifyListeners(s, connectionKey_, eventType, data) ==
    IF eventType \notin EventTypes THEN s
    ELSE IF ~s.listeners[<<connectionKey_, eventType>>].def THEN s
    ELSE forEach(s, connectionKey_, eventType, data,
                 s.listeners[<<connectionKey_, eventType>>].arr, 1)

\* The four handlers connect sets on the socket; each closes over connectionKey.
onopen(s, key) ==
    _notifyListeners([s EXCEPT !.connectionStatus[key] = "connected"],
                     key, "connection", ConnectionEvent("connected"))

\* onmessage answering a heartbeat in place of dispatching it.
onmessageHeartbeatNotDispatched(s, key, eventData) ==
    LET data == JSONparse(eventData) IN
    IF ~data.ok THEN s
    ELSE IF data.type = "heartbeat"
         THEN [WsSend(s, s.connections[key]) EXCEPT !.exc = FALSE]
         ELSE [_notifyListeners(s, key, data.type, data) EXCEPT !.exc = FALSE]

\* onmessage with JSON.parse outside the try block.
onmessageParseUncaught(s, key, eventData) ==
    LET data == JSONparse(eventData) IN
    IF ~data.ok THEN [s EXCEPT !.exc = TRUE]
    ELSE LET s1 == _notifyListeners(s, key, data.type, data) IN
         IF s1.exc THEN [s1 EXCEPT !.exc = FALSE]
         ELSE IF data.type = "heartbeat"
              THEN [WsSend(s1, s1.connections[key]) EXCEPT !.exc = FALSE]
              ELSE s1

\* onmessage with the heartbeat reply outside the try block.
onmessageSendUncaught(s, key, eventData) ==
    LET data == JSONparse(eventData) IN
    IF ~data.ok THEN s
    ELSE LET s1 == _notifyListeners(s, key, data.type, data) IN
         IF s1.exc THEN [s1 EXCEPT !.exc = FALSE]
         ELSE IF data.type = "heartbeat"
              THEN WsSend(s1, s1.connections[key])
              ELSE s1

onmessage(s, key, eventData) ==
    LET data == JSONparse(eventData) IN
    IF ~data.ok THEN s
    ELSE LET s1 == _notifyListeners(s, key, data.type, data) IN
         IF s1.exc THEN [s1 EXCEPT !.exc = FALSE]
         ELSE IF data.type = "heartbeat"
              THEN [WsSend(s1, s1.connections[key]) EXCEPT !.exc = FALSE]
              ELSE s1

\* onclose dropping the listeners of the key together with the record.
oncloseClearsListeners(s, key) ==
    LET s1 == _notifyListeners([s EXCEPT !.connectionStatus[key] = "disconnected"],
                               key, "connection", ConnectionEvent("disconnected"))
    IN  IF s1.exc THEN s1
        ELSE [s1 EXCEPT !.connections[key] = 0,
                        !.listeners = [l \in DOMAIN @ |-> IF l[1] = key THEN NoArray ELSE @[l]]]

\* onclose connecting again once the record is removed.
oncloseRetry(s, key) ==
    LET s1 == _notifyListeners([s EXCEPT !.connectionStatus[key] = "disconnected"],
                               key, "connection", ConnectionEvent("disconnected"))
    IN  IF s1.exc THEN s1
        ELSE connect([s1 EXCEPT !.connections[key] = 0], key, JsNull)

onclose(s, key) ==
    LET s1 == _notifyListeners([s EXCEPT !.connectionStatus[key] = "disconnected"],
                               key, "connection", ConnectionEvent("disconnected"))
    IN  IF s1.exc THEN s1 ELSE [s1 EXCEPT !.connections[key] = 0]

onerror(s, key) ==
    _notifyListeners([s EXCEPT !.connectionStatus[key] = "error"],
                     key, "error", ErrorEvent)

(***************************************************************************)
(* The dashboard store.                                                    *)
(***************************************************************************)
\* connectToWebsocket(); ref is the closure object the call creates.
connectToWebsocket(s, ref) ==
    IF ~s.token THEN [s EXCEPT !.ret = "false"]
    ELSE LET s1 == connect(s, Dashboard[1], Dashboard[2])
             s2 == [s1 EXCEPT !.websocketConnected = (s1.ret = "true")]
             s3 == addListener(s2, Dashboard[1], JsNull, "dashboard_update", StoreHandler(ref))
         IN  [s3 EXCEPT !.ret = IF s3.websocketConnected THEN "true" ELSE "false"]

disconnectWebsocket(s) == disconnect(s, Dashboard[1], Dashboard[2])

(***************************************************************************)
(* The router (router/index.js).                                           *)
(***************************************************************************)
\* The routes, each with the meta fields of its matched records, outermost
\* first: /login, and / as MainLayout with the child dashboard.  A path no
\* route matches has no matched record.
RouteLogin ==
    [name |-> "login", path |-> "/login", title |-> "Login",
     matched |-> <<[requiresAuth |-> "false", requiresAdmin |-> Undefined]>>]
RouteDashboard ==
    [name |-> "dashboard", path |-> "/", title |-> "Dashboard",
     matched |-> <<[requiresAuth |-> "true", requiresAdmin |-> Undefined],
                   [requiresAuth |-> Undefined, requiresAdmin |-> Undefined]>>]
RouteUnmatched ==
    [name |-> Undefined, path |-> "/symbols", title |-> Undefined, matched |-> <<>>]
Routes == {RouteLogin, RouteDashboard, RouteUnmatched}

RouteNamed(name) == CHOOSE r \in Routes : r.name = name

\* localStorage.getItem('user'): absent, or the JSON of the user record.
Users == {"absent", "user", "admin"}

\* JSON.parse(localStorage.getItem('user') || '{}').is_admin
IsAdmin(user) == user = "admin"

\* to.matched.some(record => record.meta.requiresAuth)
RequiresAuth(to) == \E j \in 1..Len(to.matched) : to.matched[j].requiresAuth = "true"
RequiresAdmin(to) == \E j \in 1..Len(to.matched) : to.matched[j].requiresAdmin = "true"

\* A guard that lets every navigation pass except /login with a token.
beforeEachNoAuthCheck(to, isAuthenticated, user) ==
    IF RequiresAdmin(to) /\ ~IsAdmin(user) THEN "dashboard"
    ELSE IF to.path = "/login" /\ isAuthenticated THEN "dashboard"
    ELSE "next"

\* router.beforeEach: the name of the route it redirects to, or "next".
beforeEach(to, isAuthenticated, user) ==
    IF RequiresAuth(to) /\ ~isAuthenticated THEN "login"
    ELSE IF RequiresAdmin(to) /\ ~IsAdmin(user) THEN "dashboard"
    ELSE IF to.path = "/login" /\ isAuthenticated THEN "dashboard"
    ELSE "next"

\* document.title = `${to.meta.title || 'Finexia'} | Stock Market Intelligence`
DocumentTitle(to) == IF to.title = Undefined THEN "Finexia" ELSE to.title

\* from is the route the application is on, title the document title.
NoNavigation ==
    [phase |-> "idle", target |-> RouteUnmatched, to |-> RouteUnmatched,
     from |-> RouteUnmatched, title |-> "", redirects |-> 0, user |-> "absent"]

(***************************************************************************)
(* The symbols list component.                                             *)
(***************************************************************************)
\* The component after setup().  requests are the api.get calls made so far,
\* pending those not yet answered, answered those that returned a response;
\* symbols is the request whose response is displayed (0: the empty list)
\* and full tells whether it holds `limit` symbols.
SymbolsListSetup ==
    [symbols |-> 0, full |-> FALSE, loading |-> FALSE, searching |-> FALSE,
     searchQuery |-> "", currentPage |-> 1, timer |-> FALSE,
     requests |-> <<>>, pending |-> {}, answered |-> {}]

\* api.get(url, {params}): the request leaves; its response comes later.
ApiGet(l, url) ==
    [l EXCEPT !.requests = Append(@, [url |-> url, page |-> l.currentPage,
                                      query |-> l.searchQuery]),
              !.pending = @ \cup {Len(l.requests) + 1}]

\* fetchSymbols up to its await
fetchSymbols(l) == ApiGet([l EXCEPT !.loading = TRUE], "/symbols")

\* searchQuery.value.trim(), for the queries typed here
Trim(q) == IF q = " " THEN "" ELSE q

\* searchSymbols up to its await
searchSymbols(l) ==
    IF Trim(l.searchQuery) = "" THEN fetchSymbols(l)
    ELSE ApiGet([l EXCEPT !.searching = TRUE], "/symbols/search")

\* The rest of fetchSymbols / searchSymbols once the response of request id
\* is there: the try block assigns symbols, finally resets the flag.
Resume(l, id, full) ==
    LET done == IF l.requests[id].url = "/symbols"
                THEN [l EXCEPT !.loading = FALSE]
                ELSE [l EXCEPT !.searching = FALSE]
    IN  [done EXCEPT !.symbols = id, !.full = full,
                     !.pending = @ \ {id}, !.answered = @ \cup {id}]

\* The same when the request failed: catch logs, finally resets the flag.
ResumeFailed(l, id) ==
    LET done == IF l.requests[id].url = "/symbols"
                THEN [l EXCEPT !.loading = FALSE]
                ELSE [l EXCEPT !.searching = FALSE]
    IN  [done EXCEPT !.pending = @ \ {id}]

(***************************************************************************)
(* Actions.                                                                *)
(***************************************************************************)
\* The state an operation leaves, with the record of the operation.
Commit(s, op, key, sock, type) ==
    /\ token' = s.token
    /\ sockets' = s.sockets
    /\ connections' = s.connections
    /\ connectionStatus' = s.connectionStatus
    /\ listeners' = s.listeners
    /\ websocketConnected' = s.websocketConnected
    /\ UNCHANGED <<nav, list>>
    /\ invoked' = s.invoked
    /\ sent' = s.sent
    /\ last' = [op |-> op, key |-> key, sock |-> sock, type |-> type,
                ret |-> s.ret, threw |-> s.exc,
                created |-> Len(s.sockets) - Len(sockets)]

NoOp == [op |-> "init", key |-> "", sock |-> 0, type |-> Undefined,
         ret |-> Undefined, threw |-> FALSE, created |-> 0]

Init ==
    /\ token \in BOOLEAN
    /\ sockets = <<>>
    /\ connections = [k \in Keys |-> 0]
    /\ connectionStatus = [k \in Keys |-> Undefined]
    /\ listeners = [ke \in Keys \X EventTypes |-> NoArray]
    /\ last = NoOp
    /\ invoked = <<>>
    /\ sent = <<>>
    /\ adds = 0
    /\ regs = {}
    /\ live = [k \in Keys |-> FALSE]
    /\ websocketConnected = FALSE
    /\ nav = NoNavigation
    /\ list = SymbolsListSetup

\* authStore.login / authStore.logout
Login ==
    /\ ~token
    /\ Commit([State EXCEPT !.token = TRUE], "login", "", 0, Undefined)
    /\ UNCHANGED <<adds, regs, live>>

Logout ==
    /\ token
    /\ Commit([State EXCEPT !.token = FALSE], "logout", "", 0, Undefined)
    /\ UNCHANGED <<adds, regs, live>>

Connect(c) ==
    LET key == connectionKey(c[1], c[2])
        s == connect(State, c[1], c[2])
    IN  /\ Commit(s, "connect", key, 0, Undefined)
        /\ live' = [live EXCEPT ![key] = @ \/ s.ret = "true"]
        /\ UNCHANGED <<adds, regs>>

Disconnect(c) ==
    LET key == connectionKey(c[1], c[2]) IN
    /\ Commit(disconnect(State, c[1], c[2]), "disconnect", key, 0, Undefined)
    /\ live' = [live EXCEPT ![key] = FALSE]
    /\ UNCHANGED <<adds, regs>>

AddListener(c, e, cb) ==
    LET key == connectionKey(c[1], c[2]) IN
    /\ Commit(addListener(State, c[1], c[2], e, cb), "addListener", key, 0, Undefined)
    /\ adds' = adds + 1
    /\ regs' = regs \cup {[key |-> key, type |-> e, cb |-> cb, n |-> adds + 1]}
    /\ UNCHANGED live

RemoveListener(c, e, cb) ==
    LET key == connectionKey(c[1], c[2]) IN
    /\ Commit(removeListener(State, c[1], c[2], e, cb), "removeListener", key, 0, Undefined)
    /\ regs' = {r \in regs : ~(r.key = key /\ r.type = e /\ r.cb = cb)}
    /\ UNCHANGED <<adds, live>>

\* Dashboard mounted (fetchDashboardData) and unmounted.
ConnectToWebsocket ==
    LET key == connectionKey(Dashboard[1], Dashboard[2])
        s == connectToWebsocket(State, adds + 1)
    IN  /\ Commit(s, "connectToWebsocket", key, 0, Undefined)
        /\ adds' = IF token THEN adds + 1 ELSE adds
        /\ regs' = IF token
                   THEN regs \cup {[key |-> key, type |-> "dashboard_update",
                                    cb |-> StoreHandler(adds + 1), n |-> adds + 1]}
                   ELSE regs
        /\ live' = [live EXCEPT ![key] = @ \/ s.websocketConnected]

DisconnectWebsocket ==
    LET key == connectionKey(Dashboard[1], Dashboard[2]) IN
    /\ Commit(disconnectWebsocket(State), "disconnectWebsocket", key, 0, Undefined)
    /\ live' = [live EXCEPT ![key] = FALSE]
    /\ UNCHANGED <<adds, regs>>

\* The open event: the handshake of a connecting socket succeeded.
SockOpen(i) ==
    /\ sockets[i].phase = "CONNECTING"
    /\ Commit(onopen([State EXCEPT !.sockets[i].phase = "OPEN"], sockets[i].key),
              "open", sockets[i].key, i, Undefined)
    /\ UNCHANGED <<adds, regs, live>>

\* The message event: a frame arrived on an open socket.
SockMessage(i, frame) ==
    /\ sockets[i].phase = "OPEN"
    /\ Commit(onmessage(State, sockets[i].key, frame),
              "message", sockets[i].key, i, JSONparse(frame).type)
    /\ UNCHANGED <<adds, regs, live>>

\* The error event: the connection failed; its close event is still to come.
SockError(i) ==
    /\ sockets[i].phase \in {"CONNECTING", "OPEN", "CLOSING"}
    /\ Commit(onerror([State EXCEPT !.sockets[i].phase = "FAILED"], sockets[i].key),
              "error", sockets[i].key, i, Undefined)
    /\ UNCHANGED <<adds, regs, live>>

\* The close event: the last event of a socket.
SockClose(i) ==
    /\ sockets[i].phase \in {"OPEN", "CLOSING", "FAILED"}
    /\ Commit(onclose([State EXCEPT !.sockets[i].phase = "CLOSED"], sockets[i].key),
              "close", sockets[i].key, i, Undefined)
    /\ live' = [live EXCEPT ![sockets[i].key] = FALSE]
    /\ UNCHANGED <<adds, regs>>

(***************************************************************************)
(* Connection life cycle runs: one channel, a listener that reconnects on  *)
(* the disconnected notification and a listener for heartbeats.            *)
(***************************************************************************)
LifeListeners == {<<"connection", Reconnect(Dashboard)>>, <<"heartbeat", Log1>>}

LifeBound == Len(sockets') <= MaxSockets /\ adds' <= MaxListeners

Next ==
    \/ Login
    \/ Logout
    \/ \E c \in Chans : Connect(c) /\ LifeBound
    \/ \E c \in Chans : Disconnect(c)
    \/ \E c \in Chans, l \in LifeListeners : AddListener(c, l[1], l[2]) /\ LifeBound
    \/ \E c \in Chans, l \in LifeListeners : RemoveListener(c, l[1], l[2])
    \/ \E i \in 1..Len(sockets) : SockOpen(i)
    \/ \E i \in 1..Len(sockets), f \in Frames : SockMessage(i, f)
    \/ \E i \in 1..Len(sockets) : SockError(i)
    \/ \E i \in 1..Len(sockets) : SockClose(i) /\ LifeBound

Spec == Init /\ [][Next]_vars

(***************************************************************************)
(* Dispatch runs: one channel, callbacks that return or throw, registered  *)
(* for a message type and for the synthetic connection event.              *)
(***************************************************************************)
DispatchCallbacks == {Log1, Log2, Thrower}
DispatchEvents == {"dashboard_update", "connection"}

DispatchBound == Len(sockets') <= DispatchSockets /\ adds' <= DispatchListeners

InitDispatch == Init /\ token

NextDispatch ==
    \/ \E c \in Chans : Connect(c) /\ DispatchBound
    \/ \E c \in Chans, e \in DispatchEvents, cb \in DispatchCallbacks :
           AddListener(c, e, cb) /\ DispatchBound
    \/ \E c \in Chans, e \in DispatchEvents, cb \in DispatchCallbacks :
           RemoveListener(c, e, cb)
    \/ \E i \in 1..Len(sockets) : SockOpen(i)
    \/ \E i \in 1..Len(sockets) : SockMessage(i, UpdateFrame)
    \/ \E i \in 1..Len(sockets) : SockClose(i)

SpecDispatch == InitDispatch /\ [][NextDispatch]_vars

(***************************************************************************)
(* Key isolation runs: the two channels of topicA, one callback registered *)
(* only under (topicA), another only under (topicA, 1).                    *)
(***************************************************************************)
KeyEvents == {"dashboard_update", "connection", "error"}

KeyBound == Len(sockets') <= KeySockets /\ adds' <= KeyListeners

InitKeys == Init /\ token

NextKeys ==
    \/ \E c \in KeyChans : Connect(c) /\ KeyBound
    \/ \E e \in KeyEvents : AddListener(TopicA, e, Log1) /\ KeyBound
    \/ \E e \in KeyEvents : AddListener(TopicATask, e, Log2) /\ KeyBound
    \/ \E i \in 1..Len(sockets) : SockOpen(i)
    \/ \E i \in 1..Len(sockets) : SockMessage(i, UpdateFrame)
    \/ \E i \in 1..Len(sockets) : SockError(i)
    \/ \E i \in 1..Len(sockets) : SockClose(i)

SpecKeys == InitKeys /\ [][NextKeys]_vars

(***************************************************************************)
(* Fault runs: listeners that throw on every event type, all frames, and   *)
(* events that arrive after disconnect removed the record.                 *)
(***************************************************************************)
FaultEvents == {"connection", "error", "heartbeat"}

FaultBound == Len(sockets') <= FaultSockets /\ adds' <= FaultListeners

InitFaults == Init /\ token

NextFaults ==
    \/ Connect(Dashboard) /\ FaultBound
    \/ Disconnect(Dashboard)
    \/ \E e \in FaultEvents : AddListener(Dashboard, e, Thrower) /\ FaultBound
    \/ \E i \in 1..Len(sockets) : SockOpen(i)
    \/ \E i \in 1..Len(sockets), f \in Frames : SockMessage(i, f)
    \/ \E i \in 1..Len(sockets) : SockError(i)
    \/ \E i \in 1..Len(sockets) : SockClose(i)

SpecFaults == InitFaults /\ [][NextFaults]_vars

(***************************************************************************)
(* Reentrant runs: callbacks that add and remove listeners of the event    *)
(* being dispatched.                                                       *)
(***************************************************************************)
ReentrantCallbacks == {Log1, Subscriber(Dashboard), Unsubscriber(Dashboard), Once(Dashboard)}

UpdateListeners == <<connectionKey(Dashboard[1], Dashboard[2]), "dashboard_update">>

ReentrantBound ==
    /\ Len(sockets') <= ReentrantSockets
    /\ adds' <= ReentrantListeners
    /\ Len(listeners'[UpdateListeners].arr) <= ReentrantLength

InitReentrant == Init /\ token

NextReentrant ==
    \/ Connect(Dashboard) /\ ReentrantBound
    \/ \E cb \in ReentrantCallbacks :
           AddListener(Dashboard, "dashboard_update", cb) /\ ReentrantBound
    \/ \E i \in 1..Len(sockets) : SockOpen(i)
    \/ \E i \in 1..Len(sockets) : SockMessage(i, UpdateFrame) /\ ReentrantBound

SpecReentrant == InitReentrant /\ [][NextReentrant]_vars

(***************************************************************************)
(* Key runs over channels whose keys may coincide.                         *)
(***************************************************************************)
CollideBound == Len(sockets') <= CollideSockets /\ adds' <= CollideListeners

InitCollide == Init /\ token

NextCollide ==
    \/ \E c \in CollideChans : Connect(c) /\ CollideBound
    \/ \E c \in CollideChans : Disconnect(c)
    \/ \E c \in CollideChans : AddListener(c, "connection", Log1) /\ CollideBound
    \/ \E i \in 1..Len(sockets) : SockOpen(i)
    \/ \E i \in 1..Len(sockets) : SockClose(i)

SpecCollide == InitCollide /\ [][NextCollide]_vars

(***************************************************************************)
(* Independence runs: every operation on two channels with distinct keys.  *)
(***************************************************************************)
IndependentBound == Len(sockets') <= IndependentSockets /\ adds' <= IndependentListeners

InitIndependent == Init /\ token

NextIndependent ==
    \/ \E c \in KeyChans : Connect(c) /\ IndependentBound
    \/ \E c \in KeyChans : Disconnect(c)
    \/ AddListener(TopicATask, "connection", Log1) /\ IndependentBound
    \/ RemoveListener(TopicATask, "connection", Log1)
    \/ \E i \in 1..Len(sockets) : SockOpen(i)
    \/ \E i \in 1..Len(sockets) : SockMessage(i, HeartbeatFrame)
    \/ \E i \in 1..Len(sockets) : SockError(i)
    \/ \E i \in 1..Len(sockets) : SockClose(i)

SpecIndependent == InitIndependent /\ [][NextIndependent]_vars

(***************************************************************************)
(* Dashboard runs: the dashboard is mounted and unmounted repeatedly.      *)
(***************************************************************************)
StoreBound == Len(sockets') <= StoreSockets /\ adds' <= StoreMounts

InitStore == Init

NextStore ==
    \/ Login
    \/ Logout
    \/ ConnectToWebsocket /\ StoreBound
    \/ DisconnectWebsocket
    \/ \E i \in 1..Len(sockets) : SockOpen(i)
    \/ \E i \in 1..Len(sockets) : SockMessage(i, UpdateFrame)
    \/ \E i \in 1..Len(sockets) : SockClose(i)

SpecStore == InitStore /\ [][NextStore]_vars

(***************************************************************************)
(* Navigation runs.                                                        *)
(***************************************************************************)
\* setAuthData / fetchUserInfo / logout write localStorage; no navigation is
\* under way (the guard and its redirects run without interruption).
Storage(tok, user) ==
    /\ nav.phase # "guard"
    /\ token' = tok
    /\ nav' = [nav EXCEPT !.user = user]
    /\ UNCHANGED <<serviceVars, list>>

\* router.push(target)
Navigate(target) ==
    /\ nav.phase # "guard"
    /\ nav' = [nav EXCEPT !.phase = "guard", !.target = target, !.to = target,
                          !.from = IF nav.phase = "entered" THEN nav.to ELSE @,
                          !.redirects = 0]
    /\ UNCHANGED <<token, serviceVars, list>>

\* One run of the guard: the navigation is confirmed or redirected.
Guard ==
    /\ nav.phase = "guard"
    /\ LET verdict == beforeEach(nav.to, token, nav.user) IN
       IF verdict = "next"
       THEN nav' = [nav EXCEPT !.phase = "entered", !.title = DocumentTitle(nav.to)]
       ELSE /\ nav.redirects < MaxRedirects
            /\ nav' = [nav EXCEPT !.to = RouteNamed(verdict), !.redirects = @ + 1,
                                  !.title = DocumentTitle(nav.to)]
    /\ UNCHANGED <<token, serviceVars, list>>

InitRouter == Init

NextRouter ==
    \/ \E tok \in BOOLEAN, user \in Users : Storage(tok, user)
    \/ \E target \in Routes : Navigate(target)
    \/ Guard

SpecRouter == InitRouter /\ [][NextRouter]_vars

(***************************************************************************)
(* Symbols list runs.                                                      *)
(***************************************************************************)
ListStep(l) ==
    /\ Len(l.requests) <= MaxRequests
    /\ list' = l
    /\ UNCHANGED <<token, serviceVars, nav>>

\* onMounted and the refresh button
Refresh == ListStep(fetchSymbols(list))

\* The search box changes: v-model and debounceSearch.
TypeQuery(q) ==
    ListStep([list EXCEPT !.searchQuery = q, !.timer = TRUE])

\* The debounce timer fires.
TimerFires ==
    /\ list.timer
    /\ ListStep(searchSymbols([list EXCEPT !.timer = FALSE]))

clearSearch == ListStep(fetchSymbols([list EXCEPT !.searchQuery = ""]))

prevPage ==
    /\ list.currentPage > 1
    /\ ListStep(fetchSymbols([list EXCEPT !.currentPage = @ - 1]))

nextPage ==
    /\ list.full
    /\ ListStep(fetchSymbols([list EXCEPT !.currentPage = @ + 1]))

\* The response of a request arrives, in any order.
Response(id, full) ==
    /\ id \in list.pending
    /\ ListStep(Resume(list, id, full))

RequestFails(id) ==
    /\ id \in list.pending
    /\ ListStep(ResumeFailed(list, id))

Queries == {"", " ", "inf"}

InitList == Init /\ ~token

NextList ==
    \/ Refresh
    \/ \E q \in Queries : TypeQuery(q)
    \/ TimerFires
    \/ clearSearch
    \/ prevPage
    \/ nextPage
    \/ \E id \in 1..Len(list.requests), full \in BOOLEAN : Response(id, full)
    \/ \E id \in 1..Len(list.requests) : RequestFails(id)

SpecList == InitList /\ [][NextList]_vars

(***************************************************************************)
(* Properties.                                                             *)
(***************************************************************************)
GetStatus(c) == getStatus(State, c[1], c[2])

\* The callbacks of an invocation log, in order.
CbsOf(log) == [j \in 1..Len(log) |-> log[j].cb]

\* The sockets created for a key and neither closed nor asked to close.
OpenSockets(k) ==
    {i \in 1..Len(sockets) : sockets[i].key = k /\ sockets[i].phase \in {"CONNECTING", "OPEN"}}

\* The event type a transport event dispatches to the listeners.
DispatchedType(l) ==
    CASE l.op = "message" -> l.type
      [] l.op \in {"open", "close"} -> "connection"
      [] l.op = "error" -> "error"
      [] OTHER -> Undefined

IsDispatch(l) == DispatchedType(l) \in EventTypes

\* C1: in every reachable state at most one socket created for a key is
\* still open.
C1_AtMostOneOpenSocket ==
    \A k \in Keys : Cardinality(OpenSockets(k)) <= 1

\* C2: the status life cycle of a key: disconnected before any connect,
\* connecting right after the connect that creates the socket, connected
\* after the open event, disconnected with the record removed after the
\* close event.
C2_StatusLifecycle ==
    \A c \in Chans :
        LET k == connectionKey(c[1], c[2]) IN
        /\ (\A i \in 1..Len(sockets) : sockets[i].key # k) => GetStatus(c) = "disconnected"
        /\ (last.op = "connect" /\ last.key = k /\ last.ret = "true" /\ last.created = 1)
               => GetStatus(c) = "connecting"
        /\ (last.op = "open" /\ last.key = k) => GetStatus(c) = "connected"
        /\ (last.op = "close" /\ last.key = k)
               => GetStatus(c) = "disconnected" /\ connections[k] = 0

\* The status changes within the life of one socket instance.
InstanceTransitions ==
    {<<"connecting", "connected">>, <<"connecting", "error">>, <<"connected", "error">>,
     <<"connecting", "disconnected">>, <<"connected", "disconnected">>,
     <<"error", "disconnected">>}

\* C3: the status of a key only moves connecting -> connected -> disconnected
\* or connecting/connected -> error -> disconnected, and leaves disconnected
\* only by a connect call that creates a new socket instance.
C3_StatusMonotonic ==
    [][\A c \in Chans :
          \/ GetStatus(c)' = GetStatus(c)
          \/ <<GetStatus(c), GetStatus(c)'>> \in InstanceTransitions
          \/ GetStatus(c)' = "connecting" /\ last'.created > 0]_vars

C5_HeartbeatReplyOnSameSocket ==
    IF last.op = "message" /\ last.type = "heartbeat"
    THEN sent = <<last.sock>>
    ELSE sent = <<>>

\* C6: without a token, connect returns false, creates no socket and leaves
\* records, statuses and listeners as they were; no socket is created by
\* any other step either (a connect made from a callback included).
C6_NoTokenNoEffect ==
    [][~token =>
          /\ Len(sockets') = Len(sockets)
          /\ last'.op = "connect" =>
                 /\ last'.ret = "false"
                 /\ UNCHANGED <<sockets, connections, connectionStatus, listeners>>]_vars

C6_Witness ==
    /\ last.op = "connect"
    /\ last.ret = "false"
    /\ \E k \in Keys : connections[k] # 0 /\ connectionStatus[k] = "connected"

\* C7: a connect for a key for which a connect already returned true, with a
\* token and with no close event or disconnect since, returns true, creates
\* no socket and changes neither the record nor the status.
C7_ConnectIdempotent ==
    [][\A k \in Keys :
          (token /\ live[k] /\ last'.op = "connect" /\ last'.key = k)
              => /\ last'.ret = "true"
                 /\ last'.created = 0
                 /\ Len(sockets') = Len(sockets)
                 /\ connections[k] # 0
                 /\ UNCHANGED <<connections, connectionStatus>>]_vars

C7_Witness ==
    /\ last.op = "connect"
    /\ last.ret = "true"
    /\ last.created = 0
    /\ live[last.key]
    /\ connectionStatus[last.key] = "connected"
    /\ Len(sockets) = 1

\* C8: when a connection listener calls connect for its key while notified
\* {status: disconnected}, with a token, a new socket is created and the key
\* has a live record once the close handler has finished.
C8_ReconnectFromNotification ==
    (/\ last.op = "close"
     /\ token
     /\ \E j \in 1..Len(invoked) : invoked[j].cb = Reconnect(Dashboard))
        => /\ last.created = 1
           /\ connections[last.key] # 0
           /\ sockets[connections[last.key]].phase = "CONNECTING"

\* C9: when a callback registered for (key, eventType) throws, the callbacks
\* registered after it are still invoked in that dispatch, nothing is thrown
\* out of the transport handler, and record and status are what the handler
\* itself makes them.
C9_FaultIsolation ==
    [][LET k == last'.key
           e == DispatchedType(last')
       IN  (/\ IsDispatch(last')
            /\ \E j \in 1..Len(listeners[<<k, e>>].arr) : listeners[<<k, e>>].arr[j] = Thrower)
               => /\ CbsOf(invoked') = listeners[<<k, e>>].arr
                  /\ ~last'.threw
                  /\ connections' = IF last'.op = "close"
                                    THEN [connections EXCEPT ![k] = 0]
                                    ELSE connections
                  /\ connectionStatus' =
                         CASE last'.op = "open" -> [connectionStatus EXCEPT ![k] = "connected"]
                           [] last'.op = "close" -> [connectionStatus EXCEPT ![k] = "disconnected"]
                           [] last'.op = "error" -> [connectionStatus EXCEPT ![k] = "error"]
                           [] OTHER -> connectionStatus]_vars

C9_Witness ==
    /\ last.op = "message"
    /\ CbsOf(invoked) = <<Log1, Thrower, Log2>>
    /\ ~last.threw
    /\ connectionStatus[last.key] = "connected"

\* The registrations for (key, eventType) that were not removed.
Registered(k, e) == {r \in regs : r.key = k /\ r.type = e}

\* A set of registrations as a sequence, in the order of the addListener calls.
InOrder(R) ==
    CHOOSE q \in [1..Cardinality(R) -> R] :
        \A i, j \in 1..Cardinality(R) : i < j => q[i].n < q[j].n

\* C10: every dispatch invokes the callbacks registered for (key, eventType)
\* in the order of their addListener calls, in every dispatch, also after
\* removeListener removed other callbacks.
C10_RegistrationOrder ==
    [][IsDispatch(last') =>
          LET q == InOrder(Registered(last'.key, DispatchedType(last')))
          IN  CbsOf(invoked') = [j \in 1..Len(q) |-> q[j].cb]]_vars

C10_Witness ==
    /\ last.op = "message"
    /\ CbsOf(invoked) = <<Log2, Log1>>
    /\ {r.n : r \in Registered(last.key, "dashboard_update")} = {1, 3}

\* C11: a listener registered for (topicA) is never invoked for an event
\* (message, connection, error) of the connection (topicA, 1), and a listener
\* registered for (topicA, 1) never for an event of the connection (topicA).
C11_KeyIsolation ==
    IsDispatch(last) =>
        \A j \in 1..Len(invoked) :
            /\ sockets[last.sock].url = wsUrl(TopicATask[1], TopicATask[2])
                   => invoked[j].cb # Log1
            /\ sockets[last.sock].url = wsUrl(TopicA[1], TopicA[2])
                   => invoked[j].cb # Log2

C11_Witness ==
    /\ IsDispatch(last)
    /\ sockets[last.sock].url = wsUrl(TopicATask[1], TopicATask[2])
    /\ CbsOf(invoked) = <<Log2>>
    /\ listeners[<<connectionKey(TopicA[1], TopicA[2]), DispatchedType(last)>>].arr = <<Log1>>

\* C12: an inbound frame that does not parse throws nothing out of the
\* message handler, changes neither status nor record nor socket, invokes no
\* listener and sends no frame.
C12_MalformedDropped ==
    [][(last'.op = "message" /\ last'.type = Undefined)
          => /\ ~last'.threw
             /\ invoked' = <<>>
             /\ sent' = <<>>
             /\ UNCHANGED <<sockets, connections, connectionStatus, listeners>>]_vars

C12_Witness ==
    /\ last.op = "message"
    /\ last.type = Undefined
    /\ connections[last.key] = last.sock
    /\ connectionStatus[last.key] = "connected"
    /\ listeners[<<last.key, "heartbeat">>].arr = <<Log1>>

\* C13: disconnect on a key with a record closes that socket and returns
\* true with the record already removed and getStatus already disconnected.
C13_DisconnectSynchronous ==
    [][\A c \in AllChans :
          LET k == connectionKey(c[1], c[2]) IN
          (last'.op = "disconnect" /\ last'.key = k /\ connections[k] # 0)
              => /\ last'.ret = "true"
                 /\ ~last'.threw
                 /\ connections'[k] = 0
                 /\ GetStatus(c)' = "disconnected"
                 /\ sockets'[connections[k]].phase \notin {"CONNECTING", "OPEN"}
                 /\ \A i \in 1..Len(sockets) : i # connections[k] => sockets'[i] = sockets[i]
                 /\ Len(sockets') = Len(sockets)]_vars

C13_Witness ==
    /\ last.op = "disconnect"
    /\ last.ret = "true"
    /\ connections[last.key] = 0
    /\ connectionStatus[last.key] = "disconnected"
    /\ Len(sockets) = 1
    /\ sockets[1].phase = "CLOSING"

\* C14: disconnect on a key without a record returns false, throws nothing,
\* closes no socket and leaves records, statuses and listeners as they were.
C14_DisconnectNoRecord ==
    [][(last'.op = "disconnect" /\ connections[last'.key] = 0)
          => /\ last'.ret = "false"
             /\ ~last'.threw
             /\ UNCHANGED <<sockets, connections, connectionStatus, listeners>>]_vars

C14_Witness ==
    /\ last.op = "disconnect"
    /\ last.ret = "false"
    /\ \E i \in 1..Len(sockets) : sockets[i].key = last.key /\ sockets[i].phase = "OPEN"

\* C15: an error event sets the status to error and dispatches an error
\* event, without removing the record; the record is removed only by the
\* close event or by disconnect; a connect issued while the status is error
\* returns true without creating a socket.
C15_ErrorKeepsRecord ==
    [][\A k \in Keys :
          /\ (last'.op = "error" /\ last'.key = k)
                 => /\ connectionStatus'[k] = "error"
                    /\ CbsOf(invoked') = listeners[<<k, "error">>].arr
                    /\ connections' = connections
          /\ (connections[k] # 0 /\ connections'[k] = 0)
                 => last'.op \in {"close", "disconnect"}
          /\ (token /\ connectionStatus[k] = "error" /\ last'.op = "connect" /\ last'.key = k)
                 => last'.ret = "true" /\ last'.created = 0]_vars

\* C16: connect, disconnect and the open, message, error and close events
\* leave the listener registry as it was, and every event of a connection is
\* delivered to each listener registered for its key and type and not
\* removed, whenever it was registered.
C16_ListenersOutliveConnections ==
    [][/\ last'.op \in {"connect", "disconnect", "open", "message", "error", "close"}
             => listeners' = listeners
       /\ IsDispatch(last')
             => \A r \in Registered(last'.key, DispatchedType(last')) :
                    \E j \in 1..Len(invoked') :
                        /\ invoked'[j].cb = r.cb
                        /\ invoked'[j].key = r.key
                        /\ invoked'[j].type = r.type]_vars

C16_Witness ==
    /\ last.op = "open"
    /\ last.sock = 2
    /\ sockets[1].phase = "CLOSED"
    /\ Len(invoked) = 1
    /\ listeners[<<last.key, "connection">>].arr = <<Reconnect(Dashboard)>>

\* The positions of arr that hold another callback than cb.
KeptPositions(arr, cb) == {j \in 1..Len(arr) : arr[j] # cb}

\* b holds the elements of a other than cb, in their order in a.
WithoutCallback(a, b, cb) ==
    /\ Len(b) = Cardinality(KeptPositions(a, cb))
    /\ \A j \in KeptPositions(a, cb) :
           b[Cardinality({i \in KeptPositions(a, cb) : i <= j})] = a[j]

\* C17: removeListener(topic, taskId, eventType, cb) leaves in the sequence
\* for (key, eventType) the callbacks other than cb, in their order, and no
\* cb; it returns false and changes nothing exactly when there is no sequence
\* for (key, eventType), and true otherwise, also when cb was not in it.
C17_RemoveListener ==
    [][\A c \in Chans, e \in DispatchEvents, cb \in DispatchCallbacks :
          LET l == <<connectionKey(c[1], c[2]), e>> IN
          RemoveListener(c, e, cb) =>
              /\ ~last'.threw
              /\ last'.ret = IF listeners[l].def THEN "true" ELSE "false"
              /\ ~listeners[l].def => listeners' = listeners
              /\ listeners'[l].def = listeners[l].def
              /\ WithoutCallback(listeners[l].arr, listeners'[l].arr, cb)
              /\ \A m \in DOMAIN listeners : m # l => listeners'[m] = listeners[m]
              /\ UNCHANGED <<sockets, connections, connectionStatus>>]_vars

C17_Witness ==
    /\ last.op = "removeListener"
    /\ last.ret = "true"
    /\ adds = 3
    /\ \E l \in DOMAIN listeners :
           /\ listeners[l].arr = <<Log2>>
           /\ {r.n : r \in regs} = {2}
           /\ \A m \in DOMAIN listeners : m # l => ~listeners[m].def

\* The number of invocations of cb in an invocation log.
Invocations(log, cb) == Cardinality({j \in 1..Len(log) : log[j].cb = cb})

\* C18: addListener puts the callback at the end of the sequence for
\* (key, eventType), also when the sequence holds it already, and each
\* dispatch invokes a callback as many times as it is registered for the
\* key and type of the event.
C18_AddListenerAppends ==
    [][/\ \A c \in Chans, e \in DispatchEvents, cb \in DispatchCallbacks :
             LET l == <<connectionKey(c[1], c[2]), e>> IN
             AddListener(c, e, cb) =>
                 /\ listeners'[l].def
                 /\ listeners'[l].arr = listeners[l].arr \o <<cb>>
                 /\ \A m \in DOMAIN listeners : m # l => listeners'[m] = listeners[m]
       /\ IsDispatch(last') =>
             \A cb \in DispatchCallbacks :
                 Invocations(invoked', cb) =
                     Cardinality({r \in Registered(last'.key, DispatchedType(last')) : r.cb = cb})]_vars

C18_Witness ==
    /\ last.op = "message"
    /\ CbsOf(invoked) = <<Log1, Log2, Log1>>
    /\ Cardinality({r \in Registered(last.key, last.type) : r.cb = Log1}) = 2

Statuses == {"connecting", "connected", "disconnected", "error"}

\* C19: getStatus always returns one of connecting, connected, disconnected,
\* error: disconnected for a key no status was recorded for, and otherwise
\* the status the last operation on the key recorded (connecting by the
\* connect that creates a socket, connected by the open event, error by the
\* error event, disconnected by the close event and by disconnect).
C19_GetStatus ==
    [][\A c \in AllChans :
          LET k == connectionKey(c[1], c[2]) IN
          /\ GetStatus(c) \in Statuses
          /\ GetStatus(c)' \in Statuses
          /\ connectionStatus[k] = Undefined => GetStatus(c) = "disconnected"
          /\ GetStatus(c)' =
                 CASE last'.key = k /\ Len(sockets') > Len(sockets) -> "connecting"
                   [] last'.key = k /\ last'.op = "open" -> "connected"
                   [] last'.key = k /\ last'.op = "error" -> "error"
                   [] last'.key = k /\ last'.op = "close" /\ Len(sockets') = Len(sockets) -> "disconnected"
                   [] last'.key = k /\ last'.op = "disconnect" /\ last'.ret = "true" -> "disconnected"
                   [] OTHER -> GetStatus(c)]_vars

C19_Witness ==
    /\ last.op = "error"
    /\ GetStatus(Dashboard) = "error"
    /\ connections["dashboard"] = 0
    /\ connectionStatus["topicA"] = Undefined
    /\ GetStatus(TopicA) = "disconnected"

\* A listener callback that calls connect was invoked.
ConnectCalledByListener(log) ==
    \E j \in 1..Len(log) : log[j].cb.kind = "reconnect"

\* C20: a socket is created only inside a connect call, made by the caller
\* or by a listener callback, that has a token and finds no record for the
\* key; an open, message, error or close event and a disconnect call create
\* no socket of their own.
C20_NoAutoRetry ==
    [][/\ Len(sockets') \in {Len(sockets), Len(sockets) + 1}
       /\ Len(sockets') > Len(sockets)
             => /\ token
                /\ connections[last'.key] = 0
                /\ sockets'[Len(sockets')].key = last'.key
                /\ last'.op = "connect" \/ ConnectCalledByListener(invoked')
       /\ (/\ last'.op \in {"open", "message", "error", "close", "disconnect"}
           /\ ~ConnectCalledByListener(invoked'))
             => sockets' = [i \in 1..Len(sockets) |->
                               IF i = last'.sock \/ last'.op = "disconnect"
                               THEN sockets'[i] ELSE sockets[i]]]_vars

C20_Witness ==
    /\ last.op = "close"
    /\ token
    /\ connections[last.key] = 0
    /\ connectionStatus[last.key] = "disconnected"
    /\ ~ConnectCalledByListener(invoked)
    /\ \A i \in 1..Len(sockets) : sockets[i].phase = "CLOSED"

TransportCallbacks == {"open", "message", "close", "error"}

\* C21: no exception leaves the open, message, close or error callback of a
\* socket, whatever the listeners do and whether or not the key still has a
\* record when the callback runs.
C21_NoExceptionEscapes ==
    last.op \in TransportCallbacks => ~last.threw

C21_Witness ==
    /\ last.op = "message"
    /\ last.type = "heartbeat"
    /\ connections[last.key] = 0
    /\ CbsOf(invoked) = <<Thrower>>
    /\ ~last.threw

\* The number of positions of arr that hold cb.
Occurrences(arr, cb) == Cardinality({j \in 1..Len(arr) : arr[j] = cb})

\* C22: when callbacks add or remove listeners of the event being
\* dispatched, the dispatch invokes the callbacks registered when it began,
\* each once and in order; what they added (log2 at the end, once for each
\* subscriber) and removed (log1, and a once callback itself) is in the
\* sequence the next dispatch reads.
C22_DispatchSnapshot ==
    [][last'.op = "message" =>
          LET before == listeners[UpdateListeners].arr
              after == listeners'[UpdateListeners].arr
              added == Occurrences(before, Subscriber(Dashboard))
              kept == [j \in 1..Len(after) - added |-> after[j]]
          IN  /\ CbsOf(invoked') = before
              /\ Len(after) >= added
              /\ \A j \in 1..Len(after) : j > Len(after) - added => after[j] = Log2
              /\ Occurrences(before, Once(Dashboard)) > 0
                     => Occurrences(after, Once(Dashboard)) = 0
              /\ Occurrences(before, Unsubscriber(Dashboard)) > 0
                     => Occurrences(after, Log1) = 0
              /\ \E gone \in SUBSET {Log1, Once(Dashboard)} :
                     kept = SelectSeq(before, LAMBDA cb : cb \notin gone)]_vars

C22_Witness ==
    /\ last.op = "message"
    /\ CbsOf(invoked) = <<Once(Dashboard), Subscriber(Dashboard), Log1>>
    /\ listeners[UpdateListeners].arr = <<Subscriber(Dashboard), Log1, Log2>>

\* C23: two different (topic, taskId) pairs never share a connection
\* record: a connect for a channel no socket was ever opened for creates its
\* socket, on the address of that channel, whatever other channels are
\* connected.
C23_KeyIdentifiesChannel ==
    [][\A c \in CollideChans :
          (/\ Connect(c)
           /\ \A i \in 1..Len(sockets) : sockets[i].url # wsUrl(c[1], c[2]))
              => /\ last'.created = 1
                 /\ sockets'[Len(sockets')].url = wsUrl(c[1], c[2])]_vars

\* C24: connect, disconnect, addListener, removeListener and the transport
\* events of one key leave the record, the status, the listener sequences
\* and the sockets of every other key as they were.
C24_KeysIndependent ==
    [][\A k2 \in Keys :
          k2 # last'.key
             => /\ connections'[k2] = connections[k2]
                /\ connectionStatus'[k2] = connectionStatus[k2]
                /\ \A e \in EventTypes : listeners'[<<k2, e>>] = listeners[<<k2, e>>]
                /\ \A i \in 1..Len(sockets) : sockets[i].key = k2 => sockets'[i] = sockets[i]
                /\ \A j \in 1..Len(invoked') : invoked'[j].key # k2
                /\ \A j \in 1..Len(sent') : sockets[sent'[j]].key # k2]_vars

C24_Witness ==
    /\ last.op = "disconnect"
    /\ last.ret = "true"
    /\ last.key = "topicA"
    /\ connectionStatus["topicA"] = "disconnected"
    /\ connections["topicA_1"] # 0
    /\ connectionStatus["topicA_1"] = "connected"
    /\ listeners[<<"topicA_1", "connection">>].arr = <<Log1>>

\* C25: after every public call and every transport callback, a key has a
\* connection record exactly when getStatus for it is connecting, connected
\* or error, that is, getStatus is disconnected exactly when disconnect
\* would return false.
C25_RecordStatusAgree ==
    \A c \in Chans :
        LET k == connectionKey(c[1], c[2]) IN
        /\ connections[k] # 0 <=> GetStatus(c) \in {"connecting", "connected", "error"}
        /\ GetStatus(c) = "disconnected" <=> disconnect(State, c[1], c[2]).ret = "false"

\* C26: a listener for the connection events of a key is never notified
\* {status: connected} twice with no {status: disconnected} between: no open
\* event notifies it while the status is still the connected of an earlier
\* open event (every disconnected notification writes the status too).
C26_ConnectedOncePerConnection ==
    [][~(/\ last'.op = "open"
         /\ connectionStatus[last'.key] = "connected"
         /\ Len(invoked') > 0
         /\ listeners[<<last'.key, "connection">>].arr # <<>>)]_vars

\* The handlers of the dashboard store in a sequence of callbacks.
StoreHandlers(arr) == {j \in 1..Len(arr) : arr[j].kind = "storeHandler"}

\* C27: whatever the sequence of connectToWebsocket and disconnectWebsocket
\* calls, at most one dashboard_update handler of the store is registered
\* for the key dashboard, and a dashboard_update message runs one.
C27_OneStoreHandler ==
    /\ Cardinality(StoreHandlers(listeners[<<"dashboard", "dashboard_update">>].arr)) <= 1
    /\ last.op = "message" => Cardinality(StoreHandlers(CbsOf(invoked))) <= 1

\* C28: the websocketConnected flag of the store is true only while there
\* is a connection record for the key dashboard.
C28_FlagFollowsRecord ==
    websocketConnected => connections["dashboard"] # 0

\* C29: for every target route and every localStorage state the guard
\* settles after at most two redirects, and the route entered requires
\* authentication only if localStorage holds a token.
C29_GuardSettles ==
    [][nav.phase = "guard" =>
          /\ nav'.redirects <= 2
          /\ (nav'.phase = "entered" /\ RequiresAuth(nav'.to)) => token']_vars

C29_Witness ==
    /\ nav.phase = "entered"
    /\ nav.target = RouteDashboard
    /\ nav.to = RouteLogin
    /\ nav.redirects = 1
    /\ ~token

\* C30: once every request has completed, the symbols displayed are the
\* response of the request issued last (where that request was answered),
\* whatever the order in which the responses arrived.
C30_LatestResponseShown ==
    (/\ list.pending = {}
     /\ Len(list.requests) \in list.answered)
        => list.symbols = Len(list.requests)

====
